---- MODULE Spec2Model ----
(***************************************************************************)
(* Model of app.py: a Flask application that reloads a survey CSV file     *)
(* into an SQLite table at every process start and answers filtered        *)
(* requests as HTML, CSV, spreadsheet or JSON.                             *)
(*                                                                         *)
(* Text is a sequence of one-character strings, so that str.strip(), the   *)
(* ordering used by sorted(), the decimal rendering of integers and the    *)
(* csv module's quoting are computed rather than assumed.                  *)
(***************************************************************************)
EXTENDS Integers, Sequences, FiniteSets, TLC

VARIABLES
    file,       \* rows of data/sample_plfs.csv as pandas.read_csv yields them
    store,      \* rows of table PLFSRecord in plfs.db, in rowid order
    TEST_MODE,  \* the module-level flag of app.py
    phase,      \* "down" | "up" | "crashed" : life cycle of the process
    resp,       \* the response being sent, NoResponse between two requests
    edits,      \* changes made to the file since the process stopped
    restarted   \* TRUE when this run started over the rows of an earlier run

vars == <<file, store, TEST_MODE, phase, resp, edits, restarted>>

\* Largest number of data rows of the source file.
MaxRows == 5

\* Largest number of rows added to or removed from the file between two runs.
MaxEdits == 1

\* Result sets smaller than this are suppressed (the literal 5 of the handlers).
Threshold == 5

-----------------------------------------------------------------------------
(* Text *)

\* The characters of the model in code-point order (Python compares str by
\* code point).
CharOrder ==
    << "\t", "\n", "\r", " ", "\"", ",", "-",
       "0", "1", "2", "3", "4", "5", "6", "7", "8", "9",
       "A", "C", "E", "F", "M", "O", "T", "U", "X", "_",
       "a", "c", "d", "e", "g", "l", "m", "n", "o", "p", "r", "s", "t", "u",
       "w", "y" >>

Ord(c) == CHOOSE i \in 1..Len(CharOrder) : CharOrder[i] = c

Whitespace == {" ", "\t", "\n", "\r"}

RECURSIVE LStrip(_)
LStrip(s) ==
    IF s # <<>> /\ Head(s) \in Whitespace THEN LStrip(Tail(s)) ELSE s

RECURSIVE RStrip(_)
RStrip(s) ==
    IF s # <<>> /\ s[Len(s)] \in Whitespace
    THEN RStrip(SubSeq(s, 1, Len(s) - 1))
    ELSE s

\* str.strip()
Strip(s) == RStrip(LStrip(s))

Digit(d) == SubSeq(<<"0", "1", "2", "3", "4", "5", "6", "7", "8", "9">>, d + 1, d + 1)

RECURSIVE NatStr(_)
NatStr(n) == IF n < 10 THEN Digit(n) ELSE NatStr(n \div 10) \o Digit(n % 10)

\* str(n) of an integer
IntStr(n) == IF n < 0 THEN <<"-">> \o NatStr(0 - n) ELSE NatStr(n)

\* s < t for Python str
RECURSIVE StrLess(_, _)
StrLess(s, t) ==
    IF t = <<>> THEN FALSE
    ELSE IF s = <<>> THEN TRUE
    ELSE IF Head(s) = Head(t) THEN StrLess(Tail(s), Tail(t))
    ELSE Ord(Head(s)) < Ord(Head(t))

\* sorted(S) for a set of str
RECURSIVE Sorted(_)
Sorted(S) ==
    IF S = {} THEN <<>>
    ELSE LET m == CHOOSE x \in S : \A y \in S \ {x} : StrLess(x, y)
         IN  <<m>> \o Sorted(S \ {m})

-----------------------------------------------------------------------------
(* Values of the cells read from the file, of form fields and of JSON bodies *)

\* t: "str" (s), "int" (n), "bool" (n in {0,1}), "list" (n = length),
\*    "nan" (pandas missing value), "none" (Python None / JSON null)
Val(t, s, n) == [t |-> t, s |-> s, n |-> n]
StrV(s) == Val("str", s, 0)
IntV(n) == Val("int", <<>>, n)
BoolV(n) == Val("bool", <<>>, n)
ListV(n) == Val("list", <<>>, n)
NaN     == Val("nan", <<>>, 0)
None    == Val("none", <<>>, 0)

\* str(v)
PyStr(v) ==
    CASE v.t = "str"  -> v.s
      [] v.t = "int"  -> IntStr(v.n)
      [] v.t = "nan"  -> <<"n", "a", "n">>
      [] OTHER        -> <<"N", "o", "n", "e">>

\* int(v) succeeds for an integer cell; a missing or non-numeric cell raises
IntOk(v) == v.t = "int"

\* bool(v), as used by "if filters[...]:"
Truthy(v) ==
    CASE v.t = "str"  -> v.s # <<>>
      [] v.t = "int"  -> v.n # 0
      [] v.t = "bool" -> v.n # 0
      [] v.t = "list" -> v.n # 0
      [] OTHER        -> FALSE

-----------------------------------------------------------------------------
(* The source file and the boot-time load *)

CA         == <<"C", "A">>
TX         == <<"T", "X">>
Female     == <<"F">>
Male       == <<"M">>
Employed   == <<"E", "m", "p", "l", "o", "y", "e", "d">>
Unemployed == <<"U", "n", "e", "m", "p", "l", "o", "y", "e", "d">>
OwnAcct    == <<"O", "w", "n", ",", "a", "c", "c", "t">>
Y2020      == <<"2", "0", "2", "0">>
Y2021      == <<"2", "0", "2", "1">>

RawRow(st, g, a, y, e, w) ==
    [state |-> st, gender |-> g, age |-> a, year |-> y,
     employment_status |-> e, wage |-> w]

\* Rows a data file may hold: padded text, a blank cell, a missing cell, a
\* cell with a comma, and a row whose age is missing.
RowA == RawRow(StrV(<<" ">> \o CA), StrV(Female), IntV(30), IntV(2021),
               StrV(Employed), IntV(50000))
RowB == RawRow(StrV(TX \o <<" ">>), StrV(Male), IntV(25), IntV(2021),
               StrV(Unemployed), IntV(0))
RowC == RawRow(StrV(<<" ">>), NaN, IntV(40), IntV(2020),
               StrV(OwnAcct), IntV(60000))
RowBad == RawRow(StrV(CA), StrV(Male), NaN, IntV(2020),
                 StrV(Employed), IntV(100))

RawRows == {RowA, RowB, RowC, RowBad}

RECURSIVE SeqsUpTo(_, _)
SeqsUpTo(S, n) ==
    IF n = 0 THEN {<<>>}
    ELSE LET P == SeqsUpTo(S, n - 1)
         IN  P \cup {Append(p, x) : p \in {q \in P : Len(q) = n - 1}, x \in S}

Files == SeqsUpTo(RawRows, MaxRows)

\* PLFSRecord(state=str(row["state"]).strip(), ..., age=int(row["age"]), ...)
PLFSRecord(row) ==
    [state             |-> Strip(PyStr(row.state)),
     gender            |-> Strip(PyStr(row.gender)),
     age               |-> row.age.n,
     year              |-> Strip(PyStr(row.year)),
     employment_status |-> Strip(PyStr(row.employment_status)),
     wage              |-> row.wage.n]

\* int(row["age"]) and int(row["wage"]) do not raise for any row
RowsConvert(f) == \A i \in 1..Len(f) : IntOk(f[i].age) /\ IntOk(f[i].wage)

\* Variant: the table is not dropped before the load.
KeepAll(s) == s

\* db.drop_all(); db.create_all(): an empty table
DropAll(s) == <<>>

\* db.session.bulk_save_objects(records); commit(): rows appended, the
\* surrogate key continuing after the last rowid
load_csv_to_db(s, f) ==
    s \o [i \in 1..Len(f) |->
            [id                |-> Len(s) + i,
             state             |-> PLFSRecord(f[i]).state,
             gender            |-> PLFSRecord(f[i]).gender,
             age               |-> PLFSRecord(f[i]).age,
             year              |-> PLFSRecord(f[i]).year,
             employment_status |-> PLFSRecord(f[i]).employment_status,
             wage              |-> PLFSRecord(f[i]).wage]]

\* The table after the "with app.app_context()" block at import: the table
\* is dropped and recreated; the rows are saved only when every row converts.
Booted(s, f) ==
    IF RowsConvert(f) THEN load_csv_to_db(DropAll(s), f) ELSE DropAll(s)

-----------------------------------------------------------------------------
(* Query construction *)

Filter(st, g, e, y) ==
    [state |-> st, gender |-> g, employment_status |-> e, year |-> y]

\* A value sqlite3 can bind as a statement parameter
Bindable(v) == v.t \in {"str", "int", "bool", "none"}

\* "column = ?" on a VARCHAR column: a numeric parameter is converted to
\* text before the comparison (TEXT affinity); text compares byte for byte.
SqlEq(c, v) ==
    CASE v.t = "str"            -> c = v.s
      [] v.t \in {"int", "bool"} -> c = IntStr(v.n)
      [] OTHER                  -> FALSE

\* Variant: the constraint is added without the "if filters[...]" test.
FilterByAlways(q, col, v) == SelectSeq(q, LAMBDA r : SqlEq(r[col], v))

\* query.filter(PLFSRecord.<col> == v) when v is truthy, else query
FilterBy(q, col, v) ==
    IF Truthy(v) THEN SelectSeq(q, LAMBDA r : SqlEq(r[col], v)) ELSE q

\* The four conditional filters of the handlers, then query.all()
QueryAll(s, f) ==
    FilterBy(FilterBy(FilterBy(FilterBy(s, "state", f.state),
                               "gender", f.gender),
                      "employment_status", f.employment_status),
             "year", f.year)

\* query.all() raises when a parameter of the statement cannot be bound
QueryRaises(f) ==
    \E c \in DOMAIN f : Truthy(f[c]) /\ ~Bindable(f[c])

\* Variant: "<=" in place of "<".
SuppressLe(mode, results) ==
    IF ~mode /\ Len(results) <= Threshold THEN <<>> ELSE results

\* if not TEST_MODE and len(results) < 5: results = []
Suppress(mode, results) ==
    IF ~mode /\ Len(results) < Threshold THEN <<>> ELSE results

-----------------------------------------------------------------------------
(* Result shapes *)

\* {"state": r.state, ..., "wage": r.wage}
RowDict(r) ==
    [state |-> r.state, gender |-> r.gender, age |-> r.age, year |-> r.year,
     employment_status |-> r.employment_status, wage |-> r.wage]

\* jsonify([{...} for r in results])
JsonRows(results) == [i \in 1..Len(results) |-> RowDict(results[i])]

\* r.__dict__ of a loaded instance, then pop("_sa_instance_state")
InstanceDict(r) ==
    [k \in {"_sa_instance_state", "id", "state", "gender", "age", "year",
            "employment_status", "wage"} |->
        IF k = "_sa_instance_state" THEN <<>> ELSE r[k]]

ResultsDict(results) ==
    [i \in 1..Len(results) |->
        [k \in DOMAIN InstanceDict(results[i]) \ {"_sa_instance_state"} |->
            InstanceDict(results[i])[k]]]

\* Variant: the "if row[0]" test is missing.
DropdownKeepEmpty(s, col) ==
    Sorted({Strip(v) : v \in {s[i][col] : i \in 1..Len(s)}})

\* sorted({row[0].strip() for row in query(col).distinct().all() if row[0]})
Dropdown(s, col) ==
    Sorted({Strip(v) : v \in {w \in {s[i][col] : i \in 1..Len(s)} : w # <<>>}})

-----------------------------------------------------------------------------
(* CSV and spreadsheet payloads *)

\* fieldnames=["state","gender","age","year","employment_status","wage"]
FieldNames ==
    << <<"s", "t", "a", "t", "e">>,
       <<"g", "e", "n", "d", "e", "r">>,
       <<"a", "g", "e">>,
       <<"y", "e", "a", "r">>,
       <<"e", "m", "p", "l", "o", "y", "m", "e", "n", "t", "_",
         "s", "t", "a", "t", "u", "s">>,
       <<"w", "a", "g", "e">> >>

SpecialChars == {",", "\"", "\r", "\n"}

RECURSIVE DoubleQuotes(_)
DoubleQuotes(s) ==
    IF s = <<>> THEN <<>>
    ELSE (IF Head(s) = "\"" THEN <<"\"", "\"">> ELSE <<Head(s)>>)
         \o DoubleQuotes(Tail(s))

\* csv.writer, QUOTE_MINIMAL: a field is quoted when it holds the delimiter,
\* the quote character or a line break; quotes inside it are doubled.
CsvField(s) ==
    IF \E i \in 1..Len(s) : s[i] \in SpecialChars
    THEN <<"\"">> \o DoubleQuotes(s) \o <<"\"">>
    ELSE s

RECURSIVE CsvJoin(_)
CsvJoin(cells) ==
    IF Len(cells) = 1 THEN CsvField(cells[1])
    ELSE CsvField(Head(cells)) \o <<",">> \o CsvJoin(Tail(cells))

\* one writer.writerow(...) / writer.writeheader() call
CsvLine(cells) == CsvJoin(cells) \o <<"\r", "\n">>

\* the cells of writer.writerow({...}) for one record: str() of each value
CsvCells(r) ==
    <<r.state, r.gender, IntStr(r.age), r.year, r.employment_status,
      IntStr(r.wage)>>

RECURSIVE CsvLines(_)
CsvLines(results) ==
    IF results = <<>> THEN <<>>
    ELSE CsvLine(CsvCells(Head(results))) \o CsvLines(Tail(results))

\* Variant: the header is written outside "if results:".
CsvPayloadHeaderAlways(results) == CsvLine(FieldNames) \o CsvLines(results)

\* si.getvalue(): the header is written only under "if results:"
CsvPayload(results) ==
    IF results # <<>> THEN CsvLine(FieldNames) \o CsvLines(results) ELSE <<>>

\* pd.DataFrame([{...} for r in results]).to_excel(index=False): a header row
\* and one row of typed cells per record; no columns, hence no cells, for [].
Sheet(results) ==
    IF results = <<>> THEN <<>>
    ELSE << [j \in 1..6 |-> StrV(FieldNames[j])] >>
         \o [i \in 1..Len(results) |->
                <<StrV(results[i].state), StrV(results[i].gender),
                  IntV(results[i].age), StrV(results[i].year),
                  StrV(results[i].employment_status),
                  IntV(results[i].wage)>>]

-----------------------------------------------------------------------------
(* Requests *)

EmptyFilter == Filter(None, None, None, None)

\* request.form.get(...) is None or a str: no field, empty fields, one
\* field, several fields, a padded value, values that match nothing together
FormFilters ==
    {EmptyFilter,
     Filter(StrV(<<>>), StrV(<<>>), StrV(<<>>), StrV(<<>>)),
     Filter(StrV(<<>>), None, None, None),
     Filter(StrV(CA), None, None, None),
     Filter(StrV(<<" ">> \o CA), None, None, None),
     Filter(None, StrV(Male), None, None),
     Filter(None, None, StrV(Employed), None),
     Filter(None, None, None, StrV(Y2021)),
     Filter(None, None, None, StrV(Y2020)),
     Filter(StrV(CA), None, None, StrV(Y2021)),
     Filter(StrV(CA), StrV(Female), StrV(Employed), StrV(Y2021))}

\* Parameters sent along with a request whose handler reads none
IgnoredParams == {EmptyFilter, Filter(StrV(CA), None, None, None)}

\* JSON objects whose fields are all strings or absent
JsonFilters ==
    {EmptyFilter,
     Filter(StrV(<<>>), None, None, None),
     Filter(StrV(TX), None, None, None),
     Filter(StrV(CA), StrV(Male), None, None),
     Filter(StrV(CA), None, None, StrV(Y2021))}

\* JSON objects whose fields are not all strings
OddObjects ==
    {Filter(None, None, None, IntV(2021)),
     Filter(IntV(0), None, None, None),
     Filter(None, BoolV(1), None, None),
     Filter(ListV(0), None, None, None),
     Filter(ListV(1), None, None, None),
     Filter(StrV(CA), None, None, ListV(2))}

\* request.json: kind is the JSON type of the body
Body(kind, f) == [kind |-> kind, f |-> f]

JsonBodies ==
    {Body("object", f) : f \in JsonFilters \cup OddObjects}
    \cup {Body(k, EmptyFilter) : k \in {"array", "string", "number", "null"}}

NoLists == [states |-> <<>>, genders |-> <<>>, emp_status |-> <<>>, years |-> <<>>]

Response(route, method, status, req, rows, text, sheet, lists) ==
    [route |-> route, method |-> method, status |-> status, req |-> req,
     rows |-> rows, text |-> text, sheet |-> sheet, lists |-> lists]

NoResponse ==
    Response("none", "none", 0, Body("none", EmptyFilter), <<>>, <<>>, <<>>, NoLists)

-----------------------------------------------------------------------------
(* State machine *)

Init ==
    /\ file \in Files
    /\ TEST_MODE \in BOOLEAN
    /\ store = Booted(<<>>, file)
    /\ phase = IF RowsConvert(file) THEN "up" ELSE "crashed"
    /\ resp = NoResponse
    /\ edits = 0
    /\ restarted = FALSE

\* The server waits for a request: one request is handled at a time.
Idle == phase = "up" /\ resp = NoResponse

\* The response is sent and the request context is torn down.
Deliver ==
    /\ phase = "up"
    /\ resp # NoResponse
    /\ resp' = NoResponse
    /\ UNCHANGED <<file, store, TEST_MODE, phase, edits, restarted>>

\* The process ends; plfs.db stays on disk.
Shutdown ==
    /\ phase = "up"
    /\ phase' = "down"
    /\ resp' = NoResponse
    /\ restarted' = FALSE
    /\ UNCHANGED <<file, store, TEST_MODE, edits>>

\* The data file is edited between two runs: a row is added or removed.
EditFile ==
    /\ phase \in {"down", "crashed"}
    /\ edits < MaxEdits
    /\ edits' = edits + 1
    /\ \/ \E row \in RawRows : Len(file) < MaxRows /\ file' = Append(file, row)
       \/ file # <<>> /\ file' = SubSeq(file, 1, Len(file) - 1)
    /\ UNCHANGED <<store, TEST_MODE, phase, resp, restarted>>

\* The module is imported again: drop_all, create_all, load_csv_to_db.
Startup ==
    /\ phase \in {"down", "crashed"}
    /\ store' = Booted(store, file)
    /\ phase' = IF RowsConvert(file) THEN "up" ELSE "crashed"
    /\ resp' = NoResponse
    /\ edits' = 0
    /\ restarted' = (store # <<>>)
    /\ UNCHANGED <<file, TEST_MODE>>

index ==
    /\ Idle
    /\ resp' = Response("/", "GET", 200, Body("none", EmptyFilter),
                        <<>>, <<>>, <<>>, NoLists)
    /\ UNCHANGED <<file, store, TEST_MODE, phase, edits, restarted>>

about ==
    /\ Idle
    /\ resp' = Response("/about", "GET", 200, Body("none", EmptyFilter),
                        <<>>, <<>>, <<>>, NoLists)
    /\ UNCHANGED <<file, store, TEST_MODE, phase, edits, restarted>>

\* The four dropdown lists of explore()
Lists(s) ==
    [states     |-> Dropdown(s, "state"),
     genders    |-> Dropdown(s, "gender"),
     emp_status |-> Dropdown(s, "employment_status"),
     years      |-> Dropdown(s, "year")]

\* Variant: the rows left out of the answer are deleted from the table.
explore_deleting(method, f) ==
    /\ Idle
    /\ LET results == IF method = "POST"
                      THEN Suppress(TEST_MODE, QueryAll(store, f))
                      ELSE <<>>
       IN  /\ resp' = Response("/explore", method, 200, Body("form", f),
                               ResultsDict(results), <<>>, <<>>, Lists(store))
           /\ store' = results
    /\ UNCHANGED <<file, TEST_MODE, phase, edits, restarted>>

explore(method, f) ==
    /\ Idle
    /\ LET results == IF method = "POST"
                      THEN Suppress(TEST_MODE, QueryAll(store, f))
                      ELSE <<>>
       IN  resp' = Response("/explore", method, 200, Body("form", f),
                            ResultsDict(results), <<>>, <<>>, Lists(store))
    /\ UNCHANGED <<file, store, TEST_MODE, phase, edits, restarted>>

download_csv(f) ==
    /\ Idle
    /\ LET results == Suppress(TEST_MODE, QueryAll(store, f))
       IN  resp' = Response("/download_csv", "POST", 200, Body("form", f),
                            <<>>, CsvPayload(results), <<>>, NoLists)
    /\ UNCHANGED <<file, store, TEST_MODE, phase, edits, restarted>>

download_excel(f) ==
    /\ Idle
    /\ LET results == Suppress(TEST_MODE, QueryAll(store, f))
       IN  resp' = Response("/download_excel", "POST", 200, Body("form", f),
                            <<>>, <<>>, Sheet(results), NoLists)
    /\ UNCHANGED <<file, store, TEST_MODE, phase, edits, restarted>>

\* Variant: the fetch-all answer goes through the suppression test.
api_data_suppressed(f) ==
    /\ Idle
    /\ resp' = Response("/api/data", "GET", 200, Body("form", f),
                        JsonRows(Suppress(TEST_MODE, store)), <<>>, <<>>, NoLists)
    /\ UNCHANGED <<file, store, TEST_MODE, phase, edits, restarted>>

api_data(f) ==
    /\ Idle
    /\ resp' = Response("/api/data", "GET", 200, Body("form", f),
                        JsonRows(store), <<>>, <<>>, NoLists)
    /\ UNCHANGED <<file, store, TEST_MODE, phase, edits, restarted>>

\* filters.get raises AttributeError unless the body is a JSON object;
\* query.all() raises when a parameter cannot be bound. Neither is caught.
api_filter(body) ==
    /\ Idle
    /\ resp' = IF body.kind # "object" \/ QueryRaises(body.f)
               THEN Response("/api/filter", "POST", 500, body,
                             <<>>, <<>>, <<>>, NoLists)
               ELSE Response("/api/filter", "POST", 200, body,
                             JsonRows(QueryAll(store, body.f)),
                             <<>>, <<>>, NoLists)
    /\ UNCHANGED <<file, store, TEST_MODE, phase, edits, restarted>>

Next ==
    \/ Deliver
    \/ Shutdown
    \/ EditFile
    \/ Startup
    \/ index
    \/ about
    \/ \E f \in IgnoredParams : explore("GET", f)
    \/ \E f \in FormFilters : explore("POST", f)
    \/ \E f \in FormFilters : download_csv(f)
    \/ \E f \in FormFilters : download_excel(f)
    \/ \E f \in IgnoredParams : api_data(f)
    \/ \E body \in JsonBodies : api_filter(body)

Spec == Init /\ [][Next]_vars

-----------------------------------------------------------------------------
(* Reading the payloads back *)

\* csv.reader with the default dialect, one record at a time.
\* mode is "field" (at the start of a field), "plain", "quoted" or "closing"
\* (a quote seen inside a quoted field).
\* RecordEnd: the position of the line break that ends the record starting
\* at i (line breaks inside a quoted field do not end it).
RECURSIVE RecordEnd(_, _, _)
RecordEnd(t, i, mode) ==
    IF i > Len(t) THEN i
    ELSE LET c == t[i] IN
         IF mode = "quoted"
         THEN RecordEnd(t, i + 1, IF c = "\"" THEN "closing" ELSE "quoted")
         ELSE IF c = "\"" /\ mode \in {"field", "closing"}
              THEN RecordEnd(t, i + 1, "quoted")
         ELSE IF c = "," THEN RecordEnd(t, i + 1, "field")
         ELSE IF c \in {"\r", "\n"} THEN i
         ELSE RecordEnd(t, i + 1, "plain")

\* The cells of one record.
RECURSIVE Cells(_, _, _, _, _)
Cells(t, i, mode, cell, row) ==
    IF i > Len(t) THEN Append(row, cell)
    ELSE LET c == t[i] IN
         IF mode = "quoted"
         THEN IF c = "\""
              THEN Cells(t, i + 1, "closing", cell, row)
              ELSE Cells(t, i + 1, "quoted", Append(cell, c), row)
         ELSE IF c = "\"" /\ mode = "field"
              THEN Cells(t, i + 1, "quoted", cell, row)
         ELSE IF c = "\"" /\ mode = "closing"
              THEN Cells(t, i + 1, "quoted", Append(cell, c), row)
         ELSE IF c = ","
              THEN Cells(t, i + 1, "field", <<>>, Append(row, cell))
         ELSE Cells(t, i + 1, "plain", Append(cell, c), row)

\* The records of the payload from position i on; empty lines are skipped.
RECURSIVE Records(_, _)
Records(t, i) ==
    IF i > Len(t) THEN <<>>
    ELSE LET e == RecordEnd(t, i, "field") IN
         IF e = i THEN Records(t, i + 1)
         ELSE <<Cells(SubSeq(t, i, e - 1), 1, "field", <<>>, <<>>)>>
              \o Records(t, e + 1)

ParseCsv(t) == Records(t, 1)

DigitValue(c) == Ord(c) - Ord("0")

RECURSIVE ParseNat(_, _)
ParseNat(s, acc) ==
    IF s = <<>> THEN acc ELSE ParseNat(Tail(s), 10 * acc + DigitValue(Head(s)))

\* int(s) of a decimal literal
ParseInt(s) ==
    IF s # <<>> /\ Head(s) = "-" THEN 0 - ParseNat(Tail(s), 0) ELSE ParseNat(s, 0)

\* csv.DictReader: the first row names the columns; age and wage are read
\* back as the integers the Record type declares.
CsvRecords(t) ==
    LET rows == ParseCsv(t) IN
    [i \in 1..(Len(rows) - 1) |->
        LET d == [j \in 1..Len(rows[1]) |-> rows[i + 1][j]]
            at(name) == d[CHOOSE j \in 1..Len(rows[1]) : rows[1][j] = name]
        IN  [state             |-> at(FieldNames[1]),
             gender            |-> at(FieldNames[2]),
             age               |-> ParseInt(at(FieldNames[3])),
             year              |-> at(FieldNames[4]),
             employment_status |-> at(FieldNames[5]),
             wage              |-> ParseInt(at(FieldNames[6]))]]

\* The records of a sheet: the rows under the header row
SheetRecords(sh) ==
    [i \in 1..(Len(sh) - 1) |->
        [state             |-> sh[i + 1][1].s,
         gender            |-> sh[i + 1][2].s,
         age               |-> sh[i + 1][3].n,
         year              |-> sh[i + 1][4].s,
         employment_status |-> sh[i + 1][5].s,
         wage              |-> sh[i + 1][6].n]]

SixFields(r) ==
    [state |-> r.state, gender |-> r.gender, age |-> r.age, year |-> r.year,
     employment_status |-> r.employment_status, wage |-> r.wage]

FilteredRoutes == {"/explore", "/download_csv", "/download_excel", "/api/filter"}

\* The logical rows a response carries, whatever its format
Shown(r) ==
    CASE r.route = "/download_csv"   -> CsvRecords(r.text)
      [] r.route = "/download_excel" -> SheetRecords(r.sheet)
      [] OTHER -> [i \in 1..Len(r.rows) |-> SixFields(r.rows[i])]

\* A filter field that is present and non-empty
Present(v) == v.t = "str" /\ v.s # <<>>

\* Every field is absent or a string
WellFormed(f) == \A c \in DOMAIN f : f[c].t \in {"none", "str"}

\* r.F == V for every field F present in filter f
Satisfies(r, f) == \A c \in DOMAIN f : Present(f[c]) => r[c] = f[c].s

\* The records of table s that satisfy f, in table order
RECURSIVE Matching(_, _)
Matching(s, f) ==
    IF s = <<>> THEN <<>>
    ELSE (IF Satisfies(Head(s), f) THEN <<SixFields(Head(s))>> ELSE <<>>)
         \o Matching(Tail(s), f)

\* A request answered from a filter: POST on one of the four filtered routes
Answered ==
    /\ resp.route \in FilteredRoutes
    /\ resp.method = "POST"
    /\ resp.status = 200

\* The filter and the matched records of the request just answered
ReqFilter == resp.req.f
Matched   == Matching(store, ReqFilter)

\* The matched records after the suppression policy: unchanged in test mode
\* or with 5 or more rows, else empty
Policy(mode, m) == IF mode \/ Len(m) >= 5 THEN m ELSE <<>>

-----------------------------------------------------------------------------
(* Claims *)

\* C1: the records matched by the filter step of /explore (POST),
\* /download_csv, /download_excel and /api/filter are exactly the records r
\* with r.F = V for every field F present and non-empty in the filter, in
\* table order; absent or empty fields impose no constraint. Observed on
\* every answer that is not suppressed.
C1_FilterExact ==
    (/\ Answered
     /\ WellFormed(ReqFilter)
     /\ (TEST_MODE \/ resp.route = "/api/filter" \/ Shown(resp) # <<>>))
    => Shown(resp) = Matched

C1_Witness ==
    /\ Answered
    /\ resp.route = "/download_excel"
    /\ ReqFilter = Filter(StrV(CA), None, None, StrV(Y2021))
    /\ Len(Shown(resp)) = 2
    /\ Len(store) = 4
    /\ \E i \in 1..Len(store) : store[i].state = TX
    /\ \E i \in 1..Len(store) : store[i].year = Y2020

\* C1 (empty filter): a filter whose fields are all absent or empty matches
\* the whole table.
C1_EmptyFilterWitness ==
    /\ Answered
    /\ resp.route = "/api/filter"
    /\ ReqFilter = Filter(StrV(<<>>), None, None, None)
    /\ TEST_MODE
    /\ Len(store) = 3
    /\ Len(Shown(resp)) = 3
    /\ \E i \in 1..Len(store) : store[i].state # <<>>

\* C2: the suppression step of /explore (POST), /download_csv and
\* /download_excel returns the matched records unchanged in test mode or
\* when there are 5 or more of them, and nothing otherwise.
C2_Suppressor ==
    (Answered /\ resp.route # "/api/filter")
    => Shown(resp) = Policy(TEST_MODE, Matched)

C2_Witness ==
    /\ Answered
    /\ resp.route = "/download_csv"
    /\ ~TEST_MODE
    /\ Len(Matched) = 5
    /\ Shown(resp) = Matched

C2_WitnessSuppressed ==
    /\ Answered
    /\ resp.route = "/explore"
    /\ ~TEST_MODE
    /\ Len(Matched) = 4
    /\ Shown(resp) = <<>>

\* C3: in production mode no answer of /explore (POST), /download_csv,
\* /download_excel or /api/filter carries between 1 and 4 records.
C3_NoSmallAnswer ==
    (Answered /\ ~TEST_MODE) => Len(Shown(resp)) \notin 1..4

\* C4: GET /api/data answers with one object per row of the table, whatever
\* the mode, the number of rows and the parameters sent.
C4_ApiDataAll ==
    resp.route = "/api/data"
    => /\ resp.status = 200
       /\ Len(resp.rows) = Len(store)
       /\ \A i \in 1..Len(store) : resp.rows[i] = SixFields(store[i])

C4_Witness ==
    /\ resp.route = "/api/data"
    /\ ~TEST_MODE
    /\ ReqFilter.state = StrV(CA)
    /\ Len(store) = 3
    /\ Len(resp.rows) = 3
    /\ \E i \in 1..Len(store) : store[i].state # CA

\* C5: for the same table, filter and mode, the CSV export and the
\* spreadsheet export carry the same records, field for field, as the JSON
\* export of /api/filter.
C5_ExportsAgree ==
    (resp.route \in {"/download_csv", "/download_excel"})
    => Shown(resp) = JsonRows(QueryAll(store, ReqFilter))

\* C6: the payload of /download_csv is empty when the result after
\* suppression is empty; otherwise it is the header state, gender, age,
\* year, employment_status, wage followed by one row per record, in order.
C6_CsvPayload ==
    resp.route = "/download_csv"
    => LET exp  == Policy(TEST_MODE, Matched)
           rows == ParseCsv(resp.text)
       IN  IF exp = <<>>
           THEN resp.text = <<>>
           ELSE /\ Len(rows) = Len(exp) + 1
                /\ rows[1] = FieldNames
                /\ \A i \in 1..Len(exp) :
                      /\ Len(rows[i + 1]) = 6
                      /\ rows[i + 1][1] = exp[i].state
                      /\ rows[i + 1][2] = exp[i].gender
                      /\ ParseInt(rows[i + 1][3]) = exp[i].age
                      /\ rows[i + 1][4] = exp[i].year
                      /\ rows[i + 1][5] = exp[i].employment_status
                      /\ ParseInt(rows[i + 1][6]) = exp[i].wage

C6_Witness ==
    /\ resp.route = "/download_csv"
    /\ ~TEST_MODE
    /\ Len(Matched) = 3
    /\ resp.text = <<>>

C6_WitnessRows ==
    /\ resp.route = "/download_csv"
    /\ Len(ParseCsv(resp.text)) = 4
    /\ \E i \in 2..4 : ParseCsv(resp.text)[i][5] = OwnAcct

\* C7: while the process is up, no request changes the table.
C7_StoreReadOnly ==
    [][(phase = "up" /\ phase' = "up") => store' = store]_vars

C7_Witness ==
    /\ phase = "up"
    /\ resp.route = "/explore"
    /\ resp.method = "POST"
    /\ ~TEST_MODE
    /\ resp.rows = <<>>
    /\ Len(Matched) = 2
    /\ Len(store) = 3

\* C8: on POST /api/filter a body that is not a JSON object, or a filter
\* field that is not a string, is answered with status 400.
C8_Malformed400 ==
    (/\ resp.route = "/api/filter"
     /\ (resp.req.kind # "object" \/ ~WellFormed(ReqFilter)))
    => resp.status = 400

\* C9: once a startup completes, the table holds exactly one record per row
\* of the source file, in file order, and nothing from an earlier run.
C9_FreshStore ==
    Idle
    => /\ Len(store) = Len(file)
       /\ \A i \in 1..Len(file) : SixFields(store[i]) = PLFSRecord(file[i])

C9_Witness ==
    /\ Idle
    /\ restarted
    /\ Len(store) = 2
    /\ Len(file) = 2

\* C10: on every /explore answer each dropdown list is strictly increasing
\* and holds exactly the non-empty values of its column over the whole
\* table.
C10_Dropdowns ==
    resp.route = "/explore"
    => \A p \in {<<"states", "state">>, <<"genders", "gender">>,
                 <<"emp_status", "employment_status">>, <<"years", "year">>} :
          LET l == resp.lists[p[1]] IN
          /\ \A i \in 1..(Len(l) - 1) : StrLess(l[i], l[i + 1])
          /\ {l[i] : i \in 1..Len(l)}
                = {store[i][p[2]] : i \in 1..Len(store)} \ {<<>>}

C10_Witness ==
    /\ resp.route = "/explore"
    /\ resp.method = "POST"
    /\ ~TEST_MODE
    /\ resp.rows = <<>>
    /\ Matched # <<>>
    /\ resp.lists.states = <<CA, TX>>
    /\ \E i \in 1..Len(store) : store[i].state = <<>>
    /\ store[1].state = TX

====
